---------------------------- MODULE Spec2Model ----------------------------
(***************************************************************************)
(* Model of dcitools/devices/doremi/commands.py: the KLV frame codec       *)
(* (construct_message, parse_message, explain_klv), the process-wide       *)
(* request id counter and the CommandCall send/receive exchange over a     *)
(* byte-stream transport.                                                  *)
(*                                                                         *)
(* Bytes are integers 0..255, a bytes object is a sequence of them.  A hex *)
(* string is a sequence of one-character strings, two per byte.            *)
(***************************************************************************)
EXTENDS Integers, Sequences, FiniteSets, TLC

VARIABLES
    REQUEST_ID,   \* the module-level counter of commands.py
    message,      \* codec input: the MessageDefinition
    args,         \* codec input: positional arguments
    kwargs,       \* codec input: named arguments (a function name -> value)
    id0,          \* value of REQUEST_ID when the current codec call began
    pc,           \* position of the codec run
    request_bin,  \* what construct_message returned (<<>> when it raised)
    error,        \* the exception that left the codec run, "" when none
    result,       \* what parse_message returned
    explained,    \* what explain_klv returned (its nine format fields)
    wire,         \* what sock.send was given, in order
    stream,       \* the bytes the device wrote that sock.receive has not returned yet
    call,         \* per CommandCall: position, locals and history of its exchange
    device,       \* the device's side: requests answered, replies written
    history,      \* what has happened on the shared transport so far
    calls,        \* how many id draws / exchanges have been started
    returned      \* what the last get_new_request_id returned

codec_vars == <<message, args, kwargs, id0, pc, request_bin, error, result, explained>>

call_vars == <<stream, call, device, history>>

vars == <<REQUEST_ID, codec_vars, wire, call_vars, calls, returned>>

-----------------------------------------------------------------------------
(* Bounds of the model.                                                    *)

\* Longest schema, in fields.
MaxFields == 2

\* Longest positional argument list.
MaxArgs == 3

\* Most id draws of a run of the id generator (one cycle of 60000 and more).
MaxDraws == 60010

\* Most send_and_receive exchanges started on the shared transport.
MaxExchanges == 2

-----------------------------------------------------------------------------
(* toolbox.bytes, as commands.py uses it.                                  *)

Min(a, b) == IF a < b THEN a ELSE b

\* n shifted right by k bytes (model integers stay below 2^31)
ShiftRight(n, k) == IF k >= 4 THEN 0 ELSE n \div (256 ^ k)

\* big-endian encoding of n on `size` bytes
int_to_bytes(n, size) == [i \in 1..size |-> ShiftRight(n, size - i) % 256]

RECURSIVE bytes_to_int(_)
\* big-endian value of a bytes object
bytes_to_int(b) ==
    IF Len(b) = 0 THEN 0
    ELSE IF Len(b) = 1 THEN b[1]
    ELSE LET h == Len(b) \div 2
             hi == bytes_to_int(SubSeq(b, 1, h))
             lo == bytes_to_int(SubSeq(b, h + 1, Len(b)))
         IN  IF hi = 0 THEN lo ELSE hi * (256 ^ (Len(b) - h)) + lo

RECURSIVE byte_width(_)
\* the least number of bytes that hold n (1 for n < 256)
byte_width(n) == IF n < 256 THEN 1 ELSE 1 + byte_width(n \div 256)

\* BER length field: short form below 128, else 0x80|k and k big-endian bytes
encode_ber(n) ==
    IF n < 128 THEN <<n>>
    ELSE <<128 + byte_width(n)>> \o int_to_bytes(n, byte_width(n))

\* decode_ber(data) -> <<length, ber_size>>
decode_ber(data) ==
    IF data[1] < 128 THEN <<data[1], 1>>
    ELSE <<bytes_to_int(SubSeq(data, 2, 1 + (data[1] - 128))), 1 + (data[1] - 128)>>

HexDigits == <<"0", "1", "2", "3", "4", "5", "6", "7",
               "8", "9", "a", "b", "c", "d", "e", "f">>

\* two hexadecimal characters per byte
bytes_to_hex(b) ==
    [i \in 1..(2 * Len(b)) |->
        IF i % 2 = 1 THEN HexDigits[(b[(i + 1) \div 2] \div 16) + 1]
        ELSE HexDigits[(b[i \div 2] % 16) + 1]]

\* Python's seq[start:end] for 0 <= start, 0 <= end (out-of-range is clamped)
PySlice(s, start, end) == SubSeq(s, start + 1, Min(end, Len(s)))

\* Python's seq[start:]
PyFrom(s, start) == SubSeq(s, start + 1, Len(s))

-----------------------------------------------------------------------------
(* Message definitions (message.py, requests.py, responses.py).            *)

\* element.text_translate: None, or a dict
NoTable == [present |-> FALSE, table |-> << >>]

EmptyTable == [present |-> TRUE, table |-> << >>]

StatusTable == [present |-> TRUE,
                table |-> [v \in {1, 7} |-> IF v = 1 THEN "OK" ELSE "ERR"]]

\* Python truth value of element.text_translate
Truthy(text_translate) ==
    text_translate.present /\ DOMAIN text_translate.table # {}

FieldNames == <<"a", "b", "c", "d">>

\* element.func on the request side: the value on element.size bytes
Encode(element, value) == int_to_bytes(value, element.size)

\* element.func on the response side
Decode(element, chunk) == bytes_to_int(chunk)

RECURSIVE Offset(_, _)
\* where field i of a schema with these sizes starts in the payload
Offset(sizes, i) == IF i = 1 THEN 0 ELSE Offset(sizes, i - 1) + sizes[i - 1]

\* The elements of a schema whose i-th field is FieldNames[i], sizes[i] bytes
\* wide, at consecutive byte ranges, with translation table tables[i].
Elements(sizes, tables) ==
    [i \in 1..Len(sizes) |->
        [name |-> FieldNames[i], size |-> sizes[i],
         start |-> Offset(sizes, i), end |-> Offset(sizes, i) + sizes[i],
         text_translate |-> tables[i]]]

RequestKey == <<170, 187, 204>>

SetValueKey == <<170, 187, 205>>

StatusKey == <<17, 34, 51>>

VersionKey == <<17, 34, 52>>

UnknownKey == <<1, 2, 3>>

MessageDefinition(name, key, elements) ==
    [name |-> name, key |-> key, elements |-> elements]

SeqsUpTo(S, n) == UNION {[1..k -> S] : k \in 0..n}

\* Schemas with translation tables, on narrow fields.
TableSchemas ==
    {MessageDefinition("GetStatus", RequestKey, Elements(st[1], st[2])) :
        st \in {x \in SeqsUpTo({1, 2}, MaxFields)
                      \X SeqsUpTo({NoTable, EmptyTable, StatusTable}, MaxFields) :
                  Len(x[1]) = Len(x[2])}}

\* Schemas without tables, on fields up to 124 bytes wide (a payload of 128
\* bytes and more takes the long BER form).
PlainSchemas ==
    {MessageDefinition("GetStatus", RequestKey,
                       Elements(sizes, [i \in 1..Len(sizes) |-> NoTable])) :
        sizes \in SeqsUpTo({4, 15, 16, 17, 124}, MaxFields)}

\* Schemas under a response key and under a key of neither catalog.
KeySchemas ==
    {MessageDefinition("Status", StatusKey, << >>),
     MessageDefinition("Nothing", UnknownKey, << >>)}

Schemas == TableSchemas \cup PlainSchemas \cup KeySchemas

ArgValues == <<1, 7, 200, 3, 5>>

\* positional argument lists: every prefix of ArgValues, and a constant list
ArgLists ==
    {SubSeq(ArgValues, 1, n) : n \in 0..Min(Len(ArgValues), MaxArgs)}
    \cup {<<7, 7>>}

\* named arguments: any subset of the field names and of one foreign name
KwargSets ==
    UNION {[S -> {9}] : S \in SUBSET {"a", "b", "z"}}
    \cup {[n \in {"a", "b"} |-> IF n = "a" THEN 7 ELSE 1]}

-----------------------------------------------------------------------------
(* commands.py                                                             *)

HEADER == <<6, 14, 43, 52, 2, 5, 1, 10, 14, 16, 1, 1, 1>>

IdModulus == 60000

\* Mutant of get_new_request_id: the counter wraps at 16 bits.
get_new_request_id_16bit(request_id) == (request_id + 1) % 65536

\* get_new_request_id: the value REQUEST_ID takes, which is the value returned
get_new_request_id(request_id) == (request_id + 1) % IdModulus

\* get_new_request_id_bytes, given the value get_new_request_id returned
get_new_request_id_bytes(new_id) == int_to_bytes(new_id, 4)

Ok(value) == [raised |-> "", value |-> value]

Raise(exception) == [raised |-> exception, value |-> << >>]

RECURSIVE payload_values_consuming(_, _, _, _, _)
\* Mutant of payload_values: a field bound by name uses up a positional
\* argument too.
payload_values_consuming(elements, a, kw, i, arg_iterator) ==
    IF i > Len(elements) THEN Ok(<< >>)
    ELSE LET element == elements[i]
             named == element.name \in DOMAIN kw
         IN  IF ~named /\ arg_iterator >= Len(a) THEN Raise("IndexError")
             ELSE LET arg == IF named THEN kw[element.name] ELSE a[arg_iterator + 1]
                      rest == payload_values_consuming(elements, a, kw, i + 1,
                                                       arg_iterator + 1)
                  IN  IF rest.raised # "" THEN rest
                      ELSE Ok(Encode(element, arg) \o rest.value)

RECURSIVE payload_values_padding(_, _, _, _, _)
\* Mutant of payload_values: a field left without a value is encoded as 0
\* instead of raising.
payload_values_padding(elements, a, kw, i, arg_iterator) ==
    IF i > Len(elements) THEN Ok(<< >>)
    ELSE LET element == elements[i]
             named == element.name \in DOMAIN kw
             arg == IF named THEN kw[element.name]
                    ELSE IF arg_iterator >= Len(a) THEN 0
                    ELSE a[arg_iterator + 1]
             rest == payload_values_padding(elements, a, kw, i + 1,
                         IF named THEN arg_iterator ELSE arg_iterator + 1)
         IN  Ok(Encode(element, arg) \o rest.value)

RECURSIVE payload_values(_, _, _, _, _)
\* The loop of construct_message from element i on, with arg_iterator
\* positional arguments used: the joined encodings, or the IndexError of
\* args[arg_iterator].
payload_values(elements, a, kw, i, arg_iterator) ==
    IF i > Len(elements) THEN Ok(<< >>)
    ELSE LET element == elements[i]
             named == element.name \in DOMAIN kw
         IN  IF ~named /\ arg_iterator >= Len(a) THEN Raise("IndexError")
             ELSE LET arg == IF named THEN kw[element.name] ELSE a[arg_iterator + 1]
                      rest == payload_values(elements, a, kw, i + 1,
                                  IF named THEN arg_iterator ELSE arg_iterator + 1)
                  IN  IF rest.raised # "" THEN rest
                      ELSE Ok(Encode(element, arg) \o rest.value)

\* Mutant of construct_message: the BER length leaves the id out.
construct_message_ber_of_fields(m, a, kw, id) ==
    LET joined == payload_values(m.elements, a, kw, 1, 0)
        payload == id \o joined.value
        ber == encode_ber(Len(joined.value))
    IN  IF joined.raised # "" THEN joined
        ELSE Ok(HEADER \o m.key \o ber \o payload)

\* construct_message, given the id bytes it drew first
construct_message(m, a, kw, id) ==
    LET joined == payload_values(m.elements, a, kw, 1, 0)
        payload == id \o joined.value
        ber == encode_ber(Len(payload))
    IN  IF joined.raised # "" THEN joined
        ELSE Ok(HEADER \o m.key \o ber \o payload)

\* An OrderedDict is a sequence of entries in insertion order.
IntEntry(key, v) == [key |-> key, kind |-> "int", num |-> v, str |-> ""]

StrEntry(key, s) == [key |-> key, kind |-> "str", num |-> 0, str |-> s]

\* d[entry.key] = entry: a key already there keeps its place
DictSet(d, entry) ==
    IF \E i \in 1..Len(d) : d[i].key = entry.key
    THEN [i \in 1..Len(d) |-> IF d[i].key = entry.key THEN entry ELSE d[i]]
    ELSE Append(d, entry)

\* table.get(key, default)
DictGet(table, key, default) ==
    IF key \in DOMAIN table THEN table[key] ELSE default

RECURSIVE parse_elements_from_zero(_, _, _, _)
\* Mutant of parse_elements: every chunk is sliced from the start of the
\* payload, payload[:elem.end].
parse_elements_from_zero(elements, payload, i, parsed) ==
    IF i > Len(elements) THEN parsed
    ELSE LET elem == elements[i]
             payload_chunk == PySlice(payload, 0, elem.end)
             value == Decode(elem, payload_chunk)
             with_value == DictSet(parsed, IntEntry(elem.name, value))
             with_text ==
                 IF Truthy(elem.text_translate)
                 THEN DictSet(with_value,
                              StrEntry(elem.name \o "_text",
                                       DictGet(elem.text_translate.table, value,
                                               "unknown value")))
                 ELSE with_value
         IN  parse_elements_from_zero(elements, payload, i + 1, with_text)

RECURSIVE parse_elements(_, _, _, _)
\* The loop of parse_message from element i on
parse_elements(elements, payload, i, parsed) ==
    IF i > Len(elements) THEN parsed
    ELSE LET elem == elements[i]
             payload_chunk == PySlice(payload, elem.start, elem.end)
             value == Decode(elem, payload_chunk)
             with_value == DictSet(parsed, IntEntry(elem.name, value))
             with_text ==
                 IF Truthy(elem.text_translate)
                 THEN DictSet(with_value,
                              StrEntry(elem.name \o "_text",
                                       DictGet(elem.text_translate.table, value,
                                               "unknown value")))
                 ELSE with_value
         IN  parse_elements(elements, payload, i + 1, with_text)

parse_message(m, payload) == parse_elements(m.elements, payload, 1, << >>)

\* The response catalog (responses.py): by key, a MessageDefinition
ResponseDefinitions ==
    {MessageDefinition("Status", StatusKey,
        <<[name |-> "response", size |-> 1, start |-> 0, end |-> 1,
           text_translate |-> StatusTable]>>),
     MessageDefinition("Version", VersionKey, Elements(<<1, 2>>, <<NoTable, NoTable>>))}

\* The request catalog (requests.py)
RequestDefinitions ==
    {MessageDefinition("GetStatus", RequestKey, << >>),
     MessageDefinition("SetValue", SetValueKey, Elements(<<1>>, <<NoTable>>))}

\* catalog.get_by_key(key): the definition, or the KeyError
get_by_key(catalog, key) ==
    IF \E d \in catalog : d.key = key
    THEN Ok(CHOOSE d \in catalog : d.key = key)
    ELSE Raise("KeyError")

requests_get_by_key(key) == get_by_key(RequestDefinitions, key)

responses_get_by_key(key) == get_by_key(ResponseDefinitions, key)

Ellipsis == <<".", ".", ".">>

\* explain_klv: the nine values it formats, or the KeyError of the lookups
explain_klv(data) ==
    LET header_hex == bytes_to_hex(PySlice(data, 0, 13))
        key == PySlice(data, 13, 16)
        key_hex == bytes_to_hex(key)
        as_request == requests_get_by_key(key)
        as_response == responses_get_by_key(key)
        key_name == IF as_request.raised = ""
                    THEN as_request.value.name \o " Request"
                    ELSE as_response.value.name \o " Response"
        decoded == decode_ber(PyFrom(data, 16))
        ber == decoded[1]
        ber_size == decoded[2]
        ber_hex == bytes_to_hex(PySlice(data, 16, 16 + ber_size))
        payload_start == 16 + ber_size
        id_hex == bytes_to_hex(PySlice(data, payload_start, payload_start + 4))
        id == bytes_to_int(PySlice(data, payload_start, payload_start + 4))
        payload == PyFrom(data, payload_start + 4)
        full_hex == bytes_to_hex(payload)
        short_hex == IF Len(data) > 40
                     THEN PySlice(full_hex, 0, 40) \o Ellipsis
                     ELSE full_hex
    IN  IF as_request.raised # "" /\ as_response.raised # ""
        THEN Raise("KeyError")
        ELSE Ok([Header |-> header_hex, Key |-> key_hex, KeyName |-> key_name,
                 Ber |-> ber_hex, BerValue |-> ber, ID |-> id_hex, IDValue |-> id,
                 Data |-> short_hex,
                 Command |-> header_hex \o key_hex \o ber_hex \o id_hex \o short_hex])

\* The payload body of a frame: the frame without its header, key, BER length
\* and correlation id.
frame_payload_of(frame) ==
    PyFrom(frame, 16 + decode_ber(PyFrom(frame, 16))[2] + 4)

-----------------------------------------------------------------------------
(* The codec run: one construct_message call on drawn inputs, then          *)
(* parse_message on the payload body of the frame and explain_klv on the    *)
(* frame.                                                                   *)

InitialIds == {0, 300, 59999}

InitCodec ==
    /\ REQUEST_ID \in InitialIds
    /\ message \in Schemas
    /\ args \in ArgLists
    /\ kwargs \in KwargSets
    /\ id0 = REQUEST_ID
    /\ pc = "start"
    /\ request_bin = << >>
    /\ error = ""
    /\ result = << >>
    /\ explained = << >>
    /\ wire = << >>
    /\ stream = << >>
    /\ call = << >>
    /\ device = << >>
    /\ history = << >>
    /\ calls = 0
    /\ returned = 0

\* construct_message(message, *args, **kwargs), called directly
ConstructMessage ==
    /\ pc = "start"
    /\ REQUEST_ID' = get_new_request_id(REQUEST_ID)
    /\ LET id == get_new_request_id_bytes(REQUEST_ID')
           built == construct_message(message, args, kwargs, id)
       IN  /\ request_bin' = built.value
           /\ error' = built.raised
           /\ pc' = IF built.raised = "" THEN "constructed" ELSE "construct_raised"
    /\ UNCHANGED <<message, args, kwargs, id0, result, explained, wire, call_vars, calls, returned>>

\* CommandCall.send(*args, **kwargs) of a call whose request_definition is
\* `message` (debug off): construct_message, then one sock.send of the frame.
\* An exception of construct_message leaves send before sock.send.
Send ==
    /\ pc = "start"
    /\ REQUEST_ID' = get_new_request_id(REQUEST_ID)
    /\ LET id == get_new_request_id_bytes(REQUEST_ID')
           built == construct_message(message, args, kwargs, id)
       IN  /\ request_bin' = built.value
           /\ error' = built.raised
           /\ wire' = IF built.raised = "" THEN Append(wire, built.value) ELSE wire
           /\ pc' = IF built.raised = "" THEN "sent" ELSE "send_raised"
    /\ UNCHANGED <<message, args, kwargs, id0, result, explained, call_vars, calls, returned>>

\* parse_message(message, payload) on the payload body of the built frame
ParseMessage ==
    /\ pc = "constructed"
    /\ result' = parse_message(message, frame_payload_of(request_bin))
    /\ pc' = "parsed"
    /\ UNCHANGED <<REQUEST_ID, message, args, kwargs, id0, request_bin, error,
                   explained, wire, call_vars, calls, returned>>

\* explain_klv(data) on the built frame
ExplainKlv ==
    /\ pc = "constructed"
    /\ LET told == explain_klv(request_bin)
       IN  /\ explained' = told.value
           /\ error' = told.raised
           /\ pc' = IF told.raised = "" THEN "explained" ELSE "explain_raised"
    /\ UNCHANGED <<REQUEST_ID, message, args, kwargs, id0, request_bin, result, wire,
                   call_vars, calls, returned>>

NextCodec == ConstructMessage \/ Send \/ ParseMessage \/ ExplainKlv

Spec == InitCodec /\ [][NextCodec]_vars

-----------------------------------------------------------------------------
(* The id generator from process start: get_new_request_id called directly *)
(* and through construct_message on the definitions of the request         *)
(* catalog.                                                                *)

\* The arguments the model calls a request definition with
ArgsFor(definition) == [i \in 1..Len(definition.elements) |-> 7]

InitId ==
    /\ REQUEST_ID = 0
    /\ message = << >>
    /\ args = << >>
    /\ kwargs = << >>
    /\ id0 = 0
    /\ pc = "start"
    /\ request_bin = << >>
    /\ error = ""
    /\ result = << >>
    /\ explained = << >>
    /\ wire = << >>
    /\ stream = << >>
    /\ call = << >>
    /\ device = << >>
    /\ history = << >>
    /\ calls = 0
    /\ returned = 0

\* get_new_request_id()
GetNewRequestId ==
    /\ calls < MaxDraws
    /\ REQUEST_ID' = get_new_request_id(REQUEST_ID)
    /\ returned' = REQUEST_ID'
    /\ calls' = calls + 1
    /\ id0' = REQUEST_ID
    /\ request_bin' = << >>
    /\ UNCHANGED <<message, args, kwargs, pc, error, result, explained, wire, call_vars>>

\* construct_message(definition, 7, ...): the id it drew is read back from
\* the four bytes after the one-byte BER length of the frame
ConstructMessageOf(definition) ==
    /\ calls < MaxDraws
    /\ REQUEST_ID' = get_new_request_id(REQUEST_ID)
    /\ LET id == get_new_request_id_bytes(REQUEST_ID')
           built == construct_message(definition, ArgsFor(definition), << >>, id)
       IN  /\ request_bin' = built.value
           /\ returned' = bytes_to_int(SubSeq(built.value, 18, 21))
    /\ calls' = calls + 1
    /\ id0' = REQUEST_ID
    /\ UNCHANGED <<message, args, kwargs, pc, error, result, explained, wire, call_vars>>

NextId ==
    \/ GetNewRequestId
    \/ \E definition \in RequestDefinitions : ConstructMessageOf(definition)

SpecId == InitId /\ [][NextId]_vars

\* C5: from process start the k-th draw returns k mod 60000 (1, 2, ..., 59999,
\* 0, 1, ...), whoever draws; the counter is the value last returned and
\* stays in 0..59999; a draw moves it by one.
C5_IdCycle ==
    /\ REQUEST_ID \in 0..59999
    /\ REQUEST_ID = calls % 60000
    /\ calls > 0 => /\ returned = calls % 60000
                    /\ REQUEST_ID = (id0 + 1) % 60000

\* C5 witness: the 60001st draw, made by construct_message, returned 1 again.
C5_Witness ==
    /\ calls = 60001
    /\ returned = 1
    /\ id0 = 0
    /\ request_bin # << >>

-----------------------------------------------------------------------------
(* CommandCall instances on one shared transport.  Each instance runs      *)
(* send_and_receive: send, then the reads of receive one sock.receive at a *)
(* time, so that the transport operations of two instances may interleave  *)
(* (the callers switch at the blocking socket calls; construct_message     *)
(* runs without a switch).  The device answers the requests it was sent in *)
(* order, one whole frame at a time.  debug is off.                        *)

Calls == {1, 2}

\* self.request_definition of each instance, resolved by requests.get
RequestDefinitionOf(c) ==
    IF c = 1 THEN MessageDefinition("GetStatus", RequestKey, << >>)
    ELSE MessageDefinition("SetValue", SetValueKey, Elements(<<1>>, <<NoTable>>))

\* A CommandCall that is not in an exchange
IdleCall ==
    [pc |-> "idle",
     response_key |-> << >>, response_payload_size |-> 0, ber_more |-> 0,
     out |-> << >>, exc |-> "",
     \* history of the current exchange
     req |-> 0,           \* which frame of `wire` is its request
     before |-> 0,        \* REQUEST_ID when the exchange began
     started |-> 0,       \* `calls` once the exchange had begun
     sends |-> 0,         \* sock.send calls made
     reads |-> << >>,     \* sizes of the sock.receive calls that returned
     at |-> 0,            \* offset in the device's output of its first read
     disturbed |-> FALSE, \* another instance read the transport meanwhile
     foreign |-> FALSE]   \* it was given a byte of a reply to another request

Receiving == {"header", "key", "ber", "ber_more", "id", "payload"}

InFlight(c) == call[c].pc \in Receiving

\* What the device may answer a request with: any header bytes, a key, the
\* request's id or another, a payload, the length in short or long BER form.
OtherHeader == <<6, 14, 43, 52, 2, 5, 1, 10, 14, 16, 1, 1, 2>>

OtherId == <<0, 0, 0, 99>>

ReplyChoices ==
    {[header |-> HEADER, key |-> StatusKey, echo |-> TRUE, long |-> FALSE,
      payload |-> <<1>>],
     [header |-> OtherHeader, key |-> StatusKey, echo |-> FALSE, long |-> TRUE,
      payload |-> <<1>>],
     [header |-> HEADER, key |-> VersionKey, echo |-> TRUE, long |-> FALSE,
      payload |-> <<2, 0, 9>>]}

\* The frame of a reply to `request`
ReplyFrame(r, request) ==
    LET id == IF r.echo THEN SubSeq(request, 18, 21) ELSE OtherId
        length == 4 + Len(r.payload)
        ber == IF r.long THEN <<129, length>> ELSE encode_ber(length)
    IN  r.header \o r.key \o ber \o id \o r.payload

InitCall ==
    /\ REQUEST_ID = 59998
    /\ message = << >>
    /\ args = << >>
    /\ kwargs = << >>
    /\ id0 = 0
    /\ pc = "start"
    /\ request_bin = << >>
    /\ error = ""
    /\ result = << >>
    /\ explained = << >>
    /\ wire = << >>
    /\ stream = [open |-> TRUE, unread |-> << >>, consumed |-> 0]
    /\ call = [c \in Calls |-> IdleCall]
    /\ device = [answered |-> 0, frames |-> << >>]
    /\ history = [overlapped |-> FALSE]
    /\ calls = 0
    /\ returned = 0

codec_unchanged == <<message, args, kwargs, id0, pc, request_bin, error, result, explained>>

\* The reply frame that holds offset p of the device's output
FrameAt(p) ==
    CHOOSE f \in 1..Len(device.frames) :
        device.frames[f].at <= p /\ p < device.frames[f].at + device.frames[f].len

\* sock.receive(n) returns: the first n unread bytes
Chunk(n) == SubSeq(stream.unread, 1, n)

Consumed(n) ==
    [stream EXCEPT !.unread = SubSeq(stream.unread, n + 1, Len(stream.unread)),
                   !.consumed = stream.consumed + n]

\* sock.receive(n) can return: the transport is up and holds n bytes
Available(n) == stream.open /\ Len(stream.unread) >= n

\* The record of instance c after a sock.receive(n) that returned
Reading(c, n) ==
    [call[c] EXCEPT
        !.reads = Append(@, n),
        !.at = IF call[c].reads = << >> THEN stream.consumed ELSE @,
        !.foreign = @ \/ \E p \in stream.consumed..(stream.consumed + n - 1) :
                             FrameAt(p) # call[c].req]

\* `call` after instance c's read changed its record to `mine`
AfterRead(c, mine) ==
    [d \in Calls |->
        IF d = c THEN mine
        ELSE IF InFlight(d) THEN [call[d] EXCEPT !.disturbed = TRUE]
        ELSE call[d]]

\* The exchange a CommandCall starts: its record after construct_message
Begun(c) ==
    [IdleCall EXCEPT !.before = REQUEST_ID, !.started = calls + 1]

\* send_and_receive: self.send(*args, **kwargs), which builds the frame and
\* hands it to sock.send once; receive comes next
CallSend(c) ==
    /\ ~InFlight(c)
    /\ calls < MaxExchanges
    /\ stream.open
    /\ REQUEST_ID' = get_new_request_id(REQUEST_ID)
    /\ calls' = calls + 1
    /\ LET id == get_new_request_id_bytes(REQUEST_ID')
           definition == RequestDefinitionOf(c)
           built == construct_message(definition, ArgsFor(definition), << >>, id)
       IN  /\ wire' = Append(wire, built.value)
           /\ call' = [call EXCEPT ![c] =
                          [Begun(c) EXCEPT !.pc = "header", !.sends = 1,
                                           !.req = Len(wire) + 1]]
    /\ history' = [history EXCEPT
                      !.overlapped = @ \/ \E d \in Calls \ {c} : InFlight(d)]
    /\ UNCHANGED <<codec_unchanged, stream, device, returned>>

\* send_and_receive whose sock.send raises: the frame was built, nothing was
\* written, the exception leaves send_and_receive.  A transport that raised
\* an I/O error is down: every later sock.send and sock.receive raises too.
CallSendFails(c) ==
    /\ ~InFlight(c)
    /\ calls < MaxExchanges
    /\ REQUEST_ID' = get_new_request_id(REQUEST_ID)
    /\ calls' = calls + 1
    /\ call' = [call EXCEPT ![c] =
                   [Begun(c) EXCEPT !.pc = "failed", !.exc = "TransportError"]]
    /\ stream' = [stream EXCEPT !.open = FALSE]
    /\ UNCHANGED <<codec_unchanged, wire, device, history, returned>>

\* response_header = self.sock.receive(13)
RecvHeader(c) ==
    /\ call[c].pc = "header"
    /\ Available(13)
    /\ call' = AfterRead(c, [Reading(c, 13) EXCEPT !.pc = "key"])
    /\ stream' = Consumed(13)
    /\ UNCHANGED <<REQUEST_ID, codec_unchanged, wire, device, history, calls, returned>>

\* response_key = self.sock.receive(3)
RecvKey(c) ==
    /\ call[c].pc = "key"
    /\ Available(3)
    /\ call' = AfterRead(c, [Reading(c, 3) EXCEPT !.pc = "ber",
                                                  !.response_key = Chunk(3)])
    /\ stream' = Consumed(3)
    /\ UNCHANGED <<REQUEST_ID, codec_unchanged, wire, device, history, calls, returned>>

\* ber_from_socket(self.sock): the first byte of the length field, which is
\* the length itself below 128 and else says how many bytes follow
RecvBer(c) ==
    /\ call[c].pc = "ber"
    /\ Available(1)
    /\ LET first == Chunk(1)[1]
       IN  call' = AfterRead(c,
               IF first < 128
               THEN [Reading(c, 1) EXCEPT !.pc = "id", !.response_payload_size = first]
               ELSE [Reading(c, 1) EXCEPT !.pc = "ber_more", !.ber_more = first - 128])
    /\ stream' = Consumed(1)
    /\ UNCHANGED <<REQUEST_ID, codec_unchanged, wire, device, history, calls, returned>>

\* ber_from_socket(self.sock): the bytes of a long-form length
RecvBerMore(c) ==
    /\ call[c].pc = "ber_more"
    /\ Available(call[c].ber_more)
    /\ call' = AfterRead(c,
           [Reading(c, call[c].ber_more) EXCEPT
               !.pc = "id",
               !.response_payload_size = bytes_to_int(Chunk(call[c].ber_more))])
    /\ stream' = Consumed(call[c].ber_more)
    /\ UNCHANGED <<REQUEST_ID, codec_unchanged, wire, device, history, calls, returned>>

\* response_id = self.sock.receive(4)
RecvId(c) ==
    /\ call[c].pc = "id"
    /\ Available(4)
    /\ call' = AfterRead(c, [Reading(c, 4) EXCEPT !.pc = "payload"])
    /\ stream' = Consumed(4)
    /\ UNCHANGED <<REQUEST_ID, codec_unchanged, wire, device, history, calls, returned>>

\* Mutant of payload_length: the whole declared length is read as payload.
payload_length_whole(response_payload_size) == response_payload_size

\* Mutant of payload_length: one byte too few is read as payload.
payload_length_short(response_payload_size) == response_payload_size - 5

\* The argument of the last read: response_payload_size-4
payload_length(response_payload_size) == response_payload_size - 4

\* The record of instance c once responses.get_by_key and parse_message have
\* run on the payload it read
Finished(mine, response_payload) ==
    LET response_definition == responses_get_by_key(mine.response_key)
    IN  IF response_definition.raised # ""
        THEN [mine EXCEPT !.pc = "failed", !.exc = response_definition.raised]
        ELSE [mine EXCEPT !.pc = "done",
                          !.out = parse_message(response_definition.value,
                                                response_payload)]

\* response_payload = self.sock.receive(response_payload_size-4), then the
\* lookup of the response definition and parse_message
RecvPayload(c) ==
    /\ call[c].pc = "payload"
    /\ LET n == payload_length(call[c].response_payload_size)
       IN  /\ n >= 0
           /\ Available(n)
           /\ call' = AfterRead(c, Finished(Reading(c, n), Chunk(n)))
           /\ stream' = Consumed(n)
    /\ UNCHANGED <<REQUEST_ID, codec_unchanged, wire, device, history, calls, returned>>

\* self.sock.receive(n) with n < 0, which a length field below 4 leads to:
\* the transport may raise or may return no bytes
RecvNegative(c) ==
    /\ call[c].pc = "payload"
    /\ payload_length(call[c].response_payload_size) < 0
    /\ stream.open
    /\ \/ call' = [call EXCEPT ![c].pc = "failed", ![c].exc = "ValueError"]
       \/ call' = AfterRead(c, Finished(Reading(c, 0), << >>))
    /\ UNCHANGED <<REQUEST_ID, codec_unchanged, wire, stream, device, history,
                   calls, returned>>

\* Mutant of RecvFails: a failed read makes the call send its request again
\* and start receive over.
RecvFailsRetrying(c) ==
    /\ InFlight(c)
    /\ wire' = Append(wire, wire[call[c].req])
    /\ call' = [call EXCEPT ![c].pc = "header", ![c].sends = @ + 1]
    /\ UNCHANGED <<REQUEST_ID, codec_unchanged, stream, device, history, calls, returned>>

\* A sock.receive of receive raises: the exception leaves receive and
\* send_and_receive, which catch nothing
RecvFails(c) ==
    /\ InFlight(c)
    /\ call' = [call EXCEPT ![c].pc = "failed", ![c].exc = "TransportError"]
    /\ stream' = [stream EXCEPT !.open = FALSE]
    /\ UNCHANGED <<REQUEST_ID, codec_unchanged, wire, device, history, calls, returned>>

\* The device answers the oldest request it has not answered yet
DeviceReply ==
    /\ device.answered < Len(wire)
    /\ \E r \in ReplyChoices :
          LET frame == ReplyFrame(r, wire[device.answered + 1])
          IN  /\ stream' = [stream EXCEPT !.unread = @ \o frame]
              /\ device' =
                    [answered |-> device.answered + 1,
                     frames |-> Append(device.frames,
                         [at |-> stream.consumed + Len(stream.unread),
                          len |-> Len(frame), header |-> r.header, key |-> r.key,
                          id |-> SubSeq(frame, Len(frame) - Len(r.payload) - 3,
                                        Len(frame) - Len(r.payload)),
                          payload |-> r.payload])]
    /\ UNCHANGED <<REQUEST_ID, codec_unchanged, wire, call, history, calls, returned>>

NextCall ==
    \/ DeviceReply
    \/ \E c \in Calls :
          \/ CallSend(c)
          \/ CallSendFails(c)
          \/ RecvHeader(c)
          \/ RecvKey(c)
          \/ RecvBer(c)
          \/ RecvBerMore(c)
          \/ RecvId(c)
          \/ RecvPayload(c)
          \/ RecvNegative(c)
          \/ RecvFails(c)

SpecCall == InitCall /\ [][NextCall]_vars

-----------------------------------------------------------------------------
(* Properties of the exchanges on the shared transport.                    *)

\* What parse_message makes of a reply frame the device wrote
ParseOf(frame) ==
    parse_message(CHOOSE d \in ResponseDefinitions : d.key = frame.key, frame.payload)

\* The reply frames that start at offset p of the device's output
FramesFrom(p) == {f \in 1..Len(device.frames) : device.frames[f].at = p}

\* The sizes receive asks the transport for on a well-formed frame: 13, 3,
\* the length field (its first byte, then the rest of a long form), 4, and
\* the declared length less 4
ReadsOf(frame) ==
    LET declared == 4 + Len(frame.payload)
        ber_size == frame.len - 16 - declared
    IN  <<13, 3, 1>> \o (IF ber_size > 1 THEN <<ber_size - 1>> ELSE << >>)
        \o <<4, declared - 4>>

IsPrefix(s, t) == Len(s) <= Len(t) /\ s = SubSeq(t, 1, Len(s))

RECURSIVE Sum(_)
Sum(s) == IF s = << >> THEN 0 ELSE s[1] + Sum(Tail(s))

\* C6: a receive that starts at the first byte of a reply frame, with no
\* other reader in between, asks for 13, 3, the BER length field, 4 and
\* declared - 4 bytes in this order, takes exactly the bytes of that frame,
\* and returns parse_message(definition of the frame's key, its payload),
\* whatever the frame's header and id bytes are.
C6_ReceiveFraming ==
    \A c \in Calls : \A f \in FramesFrom(call[c].at) :
        (call[c].reads # << >> /\ ~call[c].disturbed) =>
            LET frame == device.frames[f]
            IN  /\ IsPrefix(call[c].reads, ReadsOf(frame))
                /\ call[c].pc \notin Receiving =>
                      \/ call[c].exc = "TransportError"
                      \/ /\ call[c].pc = "done"
                         /\ call[c].reads = ReadsOf(frame)
                         /\ Sum(call[c].reads) = frame.len
                         /\ call[c].out = ParseOf(frame)

\* C6 witness: a receive returned on a frame with another header and another
\* id than the request's, and left the next frame whole in the transport.
C6_Witness ==
    \E c \in Calls : \E f \in FramesFrom(call[c].at) :
        /\ call[c].pc = "done"
        /\ ~call[c].disturbed
        /\ device.frames[f].header # HEADER
        /\ device.frames[f].id # SubSeq(wire[call[c].req], 18, 21)
        /\ call[c].out = <<IntEntry("response", 1), StrEntry("response_text", "OK")>>
        /\ f < Len(device.frames)
        /\ stream.consumed = device.frames[f + 1].at
        /\ Len(stream.unread) = device.frames[f + 1].len

\* C7: an exchange hands its frame to the transport once, before any of its
\* reads; a read that fails ends it with no second send, and the id counter
\* stays one past its value before the exchange (plus one per exchange
\* started since).
C7_SendOnce ==
    /\ Len(wire) <= calls
    /\ \A c \in Calls :
        /\ call[c].sends <= 1
        /\ call[c].reads # << >> => call[c].sends = 1
        /\ call[c].pc # "idle" =>
              REQUEST_ID = (call[c].before + 1 + (calls - call[c].started)) % 60000
        /\ call[c].sends = 1 =>
              Cardinality({i \in 1..Len(wire) : wire[i] = wire[call[c].req]}) = 1

\* C7 witness: the third read of an exchange failed; its one frame is the
\* last one written and the counter is one past its value before.
C7_Witness ==
    \E c \in Calls :
        /\ call[c].pc = "failed"
        /\ call[c].exc = "TransportError"
        /\ call[c].reads = <<13, 3>>
        /\ call[c].sends = 1
        /\ call[c].req = Len(wire)
        /\ calls = call[c].started
        /\ REQUEST_ID = (call[c].before + 1) % 60000

\* C9: as long as no exchange has started while another was under way, every
\* read is given bytes of the reply to the reader's own request, and a call
\* returns the parse of that reply.  (The witness is the other half: with
\* exchanges interleaved, a call returns another request's reply.)
C9_Serialized ==
    ~history.overlapped =>
        \A c \in Calls :
            /\ ~call[c].foreign
            /\ call[c].pc = "done" => call[c].out = ParseOf(device.frames[call[c].req])

\* C9 witness: two exchanges interleaved, and a call returned the parse of
\* bytes of the reply to the other call's request, not of its own.
C9_Witness ==
    /\ history.overlapped
    /\ \E c \in Calls :
          /\ call[c].pc = "done"
          /\ call[c].foreign
          /\ call[c].req <= Len(device.frames)
          /\ call[c].out # ParseOf(device.frames[call[c].req])

-----------------------------------------------------------------------------
(* Properties of the codec run.                                            *)

\* The codec run holds a frame that construct_message returned.
Built == pc \in {"constructed", "sent", "parsed", "explained", "explain_raised"}

\* The field positions of the schema
Fields == 1..Len(message.elements)

\* The value the arguments bind to field i: the named argument of its name,
\* else the positional argument after those the earlier unnamed fields took.
Unnamed(i) == message.elements[i].name \notin DOMAIN kwargs

Bound(i) ==
    IF Unnamed(i)
    THEN args[1 + Cardinality({j \in 1..(i - 1) : Unnamed(j)})]
    ELSE kwargs[message.elements[i].name]

\* Every field gets a value: the positional arguments cover the unnamed fields.
Resolves == Cardinality({i \in Fields : Unnamed(i)}) <= Len(args)

RECURSIVE SizeUpTo(_)
\* The bytes the encodings of fields 1..i take
SizeUpTo(i) == IF i = 0 THEN 0 ELSE SizeUpTo(i - 1) + message.elements[i].size

\* The bytes of the frame after the 16 bytes of header and key
AfterKey == SubSeq(request_bin, 17, Len(request_bin))

\* C1: a frame construct_message returns is the 13 header bytes, the schema's
\* key, the BER encoding of the payload length, and the payload: the 4-byte
\* big-endian id just drawn, then 4 + (width of the fields) bytes in all; and
\* it returns a frame whenever the arguments resolve every field.
C1_FrameLayout ==
    /\ (pc # "start" /\ Resolves) => Built
    /\ Built =>
        LET declared == 4 + SizeUpTo(Len(message.elements))
            ber == encode_ber(declared)
            payload == SubSeq(AfterKey, Len(ber) + 1, Len(AfterKey))
        IN  /\ SubSeq(request_bin, 1, 13) = <<6, 14, 43, 52, 2, 5, 1, 10, 14, 16, 1, 1, 1>>
            /\ SubSeq(request_bin, 14, 16) = message.key
            /\ SubSeq(AfterKey, 1, Len(ber)) = ber
            /\ Len(payload) = declared
            /\ decode_ber(AfterKey) = <<Len(payload), Len(ber)>>
            /\ REQUEST_ID = (id0 + 1) % 60000
            /\ SubSeq(payload, 1, 4) =
                   <<0, 0, REQUEST_ID \div 256, REQUEST_ID % 256>>

\* C1 witness: a two-field frame in the long BER form whose id wrapped to 0.
C1_Witness ==
    /\ pc = "constructed"
    /\ Len(message.elements) = 2
    /\ AfterKey[1] = 129
    /\ id0 = 59999
    /\ REQUEST_ID = 0

\* C2: in the payload body, field i's bytes are the encoding of the named
\* argument of its name if given, else of the next unused positional one; the
\* encodings follow each other in schema order with nothing between them.
C2_FieldBinding ==
    Built =>
        LET body == SubSeq(AfterKey, Len(AfterKey) - SizeUpTo(Len(message.elements)) + 1,
                           Len(AfterKey))
        IN  /\ Len(AfterKey) = decode_ber(AfterKey)[2] + 4 + Len(body)
            /\ \A i \in Fields :
                   SubSeq(body, SizeUpTo(i - 1) + 1, SizeUpTo(i)) =
                       [k \in 1..message.elements[i].size |->
                           IF k = message.elements[i].size THEN Bound(i) ELSE 0]

\* C2 witness: the first field bound by name, the second by the first
\* positional argument, with different values.
C2_Witness ==
    /\ pc = "constructed"
    /\ Len(message.elements) = 2
    /\ ~Unnamed(1)
    /\ Unnamed(2)
    /\ Len(args) >= 2
    /\ Bound(2) = args[1]
    /\ args[1] # args[2]

\* C3: parse_message on the payload body of the constructed frame gives the
\* field names in schema order, each with the value the arguments bound to it.
C3_RoundTrip ==
    pc = "parsed" =>
        LET values == SelectSeq(result, LAMBDA e : e.kind = "int")
        IN  /\ Len(values) = Len(message.elements)
            /\ \A i \in Fields :
                   /\ values[i].key = message.elements[i].name
                   /\ values[i].num = Bound(i)

\* C3 witness: a parsed two-field frame of different field widths and values.
C3_Witness ==
    /\ pc = "parsed"
    /\ Len(message.elements) = 2
    /\ message.elements[1].size # message.elements[2].size
    /\ Bound(1) # Bound(2)
    /\ Unnamed(1)

\* C8: when the positional arguments run out before every unnamed field has a
\* value, construct_message raises and returns no frame, and send raises too
\* and writes nothing to the transport.
C8_MissingArgument ==
    (pc # "start" /\ ~Resolves) =>
        /\ pc \in {"construct_raised", "send_raised"}
        /\ error = "IndexError"
        /\ request_bin = << >>
        /\ wire = << >>

\* C8 witness: send raised on a schema with two fields and one value.
C8_Witness ==
    /\ pc = "send_raised"
    /\ Len(message.elements) = 2
    /\ Len(args) = 1
    /\ Unnamed(1)
    /\ Unnamed(2)

\* The positions of key in an OrderedDict
Positions(d, key) == {k \in 1..Len(d) : d[k].key = key}

\* What the translation table of element e says of the decoded value v
Translated(e, v) ==
    IF v \in DOMAIN e.text_translate.table
    THEN e.text_translate.table[v]
    ELSE "unknown value"

\* C4: for every field, when a translation table is present (an empty one
\* included) the parsed result holds <name>_text right after <name>, equal to
\* the table's entry for the decoded value or to "unknown value"; when no
\* table is present it holds no <name>_text.
C4_TextEntries ==
    pc = "parsed" =>
        \A i \in Fields :
            LET e == message.elements[i]
            IN  IF e.text_translate.present
                THEN \E k \in Positions(result, e.name) :
                        /\ k + 1 \in Positions(result, e.name \o "_text")
                        /\ result[k + 1].str = Translated(e, result[k].num)
                ELSE Positions(result, e.name \o "_text") = {}

\* C4, for the tables parse_message takes as given: the same with "present"
\* read as "present and not empty".
C4_NonEmptyTables ==
    pc = "parsed" =>
        \A i \in Fields :
            LET e == message.elements[i]
            IN  IF e.text_translate.present /\ DOMAIN e.text_translate.table # {}
                THEN \E k \in Positions(result, e.name) :
                        /\ k + 1 \in Positions(result, e.name \o "_text")
                        /\ result[k + 1].str = Translated(e, result[k].num)
                ELSE Positions(result, e.name \o "_text") = {}

\* The hex digits of the payload body of the built frame
PayloadHex == bytes_to_hex(frame_payload_of(request_bin))

\* A rendered hex string ends in the ellipsis marker
EndsInEllipsis(hex) ==
    Len(hex) >= 3 /\ SubSeq(hex, Len(hex) - 2, Len(hex)) = <<".", ".", ".">>

\* C10: explain_klv renders the payload hex cut to its first 40 characters and
\* followed by "..." when the frame is longer than 40 bytes, renders it as it
\* is otherwise, and adds the ellipsis only when it cut characters off.
C10_Truncation ==
    pc = "explained" =>
        /\ Len(request_bin) > 40 =>
               explained.Data = SubSeq(PayloadHex, 1, 40) \o <<".", ".", ".">>
        /\ Len(request_bin) <= 40 => explained.Data = PayloadHex
        /\ EndsInEllipsis(explained.Data) => Len(PayloadHex) > 40

\* C10 without its last clause: what decides the ellipsis is the length of
\* the frame in bytes.
C10_FrameLimit ==
    pc = "explained" =>
        /\ Len(request_bin) > 40 =>
               explained.Data = SubSeq(PayloadHex, 1, 40) \o <<".", ".", ".">>
        /\ Len(request_bin) <= 40 => explained.Data = PayloadHex

=============================================================================
